---- MODULE Spec2Model ----
(***************************************************************************)
(* A model of the article scrapper (scrapper.py) and of the annotation     *)
(* pipeline (pipeline.py, second_person.py).                               *)
(*                                                                         *)
(* Strings are modelled as sequences of tokens: a URL such as              *)
(* "http://j/issue/1/showToc" is <<"http://", "issue", "1", "showToc">>,   *)
(* so that Python's substring test `"showToc" in seed` and the regular     *)
(* expression `https?://` anchored at the start are computed on the value. *)
(* The cache file is the token sequence of its text, with "\n" a token.    *)
(***************************************************************************)
EXTENDS Integers, Sequences, FiniteSets, TLC

VARIABLES
    config,         \* the parsed scrapper_config.json of the current run
    web,            \* the journal site: page URL -> sequence of <a> nodes
    cacheFile,      \* CRAWLER_CACHE_PATH: [exists, text]
    assetsCleared,  \* prepare_environment(ASSETS_PATH) has run in this run
    pc,             \* position of scrapper.py's __main__ block
    err,            \* the exception that ended the run, "none" otherwise
    raisedIn,       \* the call the exception escaped from
    runs,           \* number of runs of the script started so far
    seed_urls,      \* Crawler.seed_urls
    max_articles,   \* Crawler.max_articles
    urls,           \* Crawler.urls
    crawled,        \* CrawlerRecursive._crawled
    stack,          \* call stack of CrawlerRecursive.recurse
    fetchSeq,       \* history: the _get_page calls of this run, in order
    startUrls,      \* history: urls right after construction of this run
    prevUrls,       \* history: urls at the end of the previous run
    startFresh,     \* history: this run's crawler was built with no cache file
    prevFetched,    \* history: page URLs fetched by the previous run
    prevFresh,      \* history: the previous run's crawler started with no cache
    saved,          \* number of articles parsed and saved by __main__
    dsKind,         \* ASSETS_PATH: "missing", "file" or "dir"
    dsFiles,        \* the files of ASSETS_PATH: file name -> text
    entry,          \* the annotate script that runs: "pipeline", "second_person"
    apc,            \* position in that script
    aerr,           \* the exception that ended it, "none" otherwise
    araisedIn,      \* the call the exception escaped from
    annRuns,        \* number of annotate runs started so far
    storage,        \* CorpusManager._storage: id -> Article
    pending,        \* the articles the running loop has still to visit
    matches,        \* second_person.py's matches
    outFile,        \* SECOND_PERSON_PATH: [exists, text]
    validated,      \* history: validate_dataset returned normally in this run
    corpusBuilt,    \* history: a CorpusManager was built in this run
    rawRead,        \* history: a raw text was read in this run
    wrote,          \* history: a file was written in this run
    dsAtStart,      \* history: dsFiles when this run started
    outAtStart,     \* history: outFile when this run started
    prevPipelineDone \* history: the previous run was pipeline.py and completed

crawlVars == <<config, web, cacheFile, assetsCleared, pc, err, raisedIn, runs,
               seed_urls, max_articles, urls, crawled, stack, fetchSeq,
               startUrls, prevUrls, startFresh, prevFetched, prevFresh, saved>>

annVars == <<dsKind, dsFiles, entry, apc, aerr, araisedIn, annRuns, storage,
             pending, matches, outFile, validated, corpusBuilt, rawRead, wrote,
             dsAtStart, outAtStart, prevPipelineDone>>

vars == <<crawlVars, annVars>>

(***************************************************************************)
(* Bounds                                                                  *)
(***************************************************************************)
\* number of times the script is run against the same cache file
MaxRuns == 2

(***************************************************************************)
(* Strings                                                                 *)
(***************************************************************************)
\* Python `tok in s` on a tokenised string
Contains(s, tok) == \E i \in 1..Len(s) : s[i] = tok

Range(s) == {s[i] : i \in 1..Len(s)}

Front(s) == SubSeq(s, 1, Len(s) - 1)

Last(s) == s[Len(s)]

NoDuplicates(s) == \A i, j \in 1..Len(s) : s[i] = s[j] => i = j

\* sep.join(list)
RECURSIVE JoinWith(_, _)
JoinWith(sep, list) ==
    IF Len(list) = 0 THEN <<>>
    ELSE IF Len(list) = 1 THEN list[1]
    ELSE list[1] \o <<sep>> \o JoinWith(sep, Tail(list))

\* "\n".join(list)
Join(list) == JoinWith("\n", list)

\* text.split("\n"): always at least one (possibly empty) piece
RECURSIVE Split(_)
Split(text) ==
    IF ~Contains(text, "\n") THEN <<text>>
    ELSE LET i == CHOOSE k \in 1..Len(text) :
                    /\ text[k] = "\n"
                    /\ \A j \in 1..(k - 1) : text[j] # "\n"
         IN <<SubSeq(text, 1, i - 1)>> \o Split(SubSeq(text, i + 1, Len(text)))

(***************************************************************************)
(* The site                                                                *)
(***************************************************************************)
ARCHIVE1 == <<"http://", "archive">>
ARCHIVE2 == <<"https://", "archive", "p2">>
TOC1 == <<"http://", "issue", "1", "showToc">>
TOC2 == <<"http://", "issue", "2", "showToc">>
ART_A == <<"http://", "article", "a">>
ART_B == <<"http://", "article", "b">>
ART_C == <<"http://", "article", "c">>
ISSUE_PDF == <<"http://", "issue", "1", "pdf">>
BAD_FTP == <<"ftp://", "archive">>
BAD_REL == <<"archive">>

Link(h) == [has_href |-> TRUE, href |-> h, class |-> ""]
FileLink(h) == [has_href |-> TRUE, href |-> h, class |-> "file"]
Anchor == [has_href |-> FALSE, href |-> <<>>, class |-> ""]

\* one archive page, one issue with three articles and a link to the issue file
WebOneIssue ==
    ARCHIVE1 :> <<Link(TOC1)>>
    @@ TOC1 :> <<FileLink(ISSUE_PDF), FileLink(ART_A), Link(ARCHIVE1),
                 FileLink(ART_B), FileLink(ART_C)>>

\* two archive pages linking to each other, the link to the next archive page
\* standing between the links to the two issues
WebTwoArchives ==
    ARCHIVE1 :> <<Anchor, Link(TOC1), Link(ARCHIVE2), Link(TOC2)>>
    @@ ARCHIVE2 :> <<Link(ARCHIVE1), Link(TOC2)>>
    @@ TOC1 :> <<FileLink(ISSUE_PDF), FileLink(ART_A), FileLink(ART_B)>>
    @@ TOC2 :> <<FileLink(ART_C)>>

Webs == {WebOneIssue, WebTwoArchives}

(***************************************************************************)
(* scrapper_config.json                                                    *)
(***************************************************************************)
\* JSON numbers, booleans and strings as json.load returns them; n is the
\* value Python compares (True is 1, False is 0)
JsonInt(n) == [type |-> "int", n |-> n]
JsonBool(n) == [type |-> "bool", n |-> n]
JsonStr == [type |-> "str", n |-> 0]
JsonFloat == [type |-> "float", n |-> 0]

Counts == {JsonInt(-1), JsonInt(0), JsonInt(1), JsonInt(2), JsonInt(200),
           JsonInt(201), JsonBool(0), JsonBool(1), JsonStr, JsonFloat}

List(items) == [is_list |-> TRUE, items |-> items]
NotAList == [is_list |-> FALSE, items |-> <<>>]

SeedValues == {NotAList, List(<<>>), List(<<ARCHIVE1>>), List(<<TOC2, ARCHIVE1>>),
               List(<<ARCHIVE1, TOC1>>), List(<<BAD_FTP>>),
               List(<<ARCHIVE1, BAD_REL>>), List(<<BAD_FTP, ARCHIVE1>>)}

Configs ==
    [has_seeds : BOOLEAN, seeds : SeedValues, has_count : BOOLEAN, count : Counts]

\* a missing key carries no value
WellFormed(cfg) ==
    /\ ~cfg.has_seeds => cfg.seeds = NotAList
    /\ ~cfg.has_count => cfg.count = JsonStr

\* isinstance(v, int): bool is a subclass of int
IsInstanceInt(v) == v.type \in {"int", "bool"}

\* re.match(r"https?://", url)
_is_valid_url(url_to_validate) ==
    /\ Len(url_to_validate) > 0
    /\ url_to_validate[1] \in {"http://", "https://"}

\* the largest accepted total_articles_to_find_and_parse
MaxCount == 200

Raise(e) == [err |-> e, seed_urls |-> <<>>, max_articles |-> 0]

\* validate_config with the count test written `< 0`
validate_config_zero_count(cfg) ==
    IF ~cfg.has_seeds THEN Raise("IncorrectURLError")
    ELSE IF ~cfg.has_count THEN Raise("IncorrectNumberOfArticlesError")
    ELSE IF ~IsInstanceInt(cfg.count) \/ cfg.count.n < 0
        THEN Raise("IncorrectNumberOfArticlesError")
    ELSE IF cfg.count.n > MaxCount THEN Raise("NumberOfArticlesOutOfRangeError")
    ELSE IF ~cfg.seeds.is_list \/ Len(cfg.seeds.items) = 0
        THEN Raise("IncorrectURLError")
    ELSE IF \E i \in 1..Len(cfg.seeds.items) : ~_is_valid_url(cfg.seeds.items[i])
        THEN Raise("IncorrectURLError")
    ELSE [err |-> "none", seed_urls |-> cfg.seeds.items,
          max_articles |-> cfg.count.n]

\* validate_config with only the first seed url tested
validate_config_first_seed(cfg) ==
    IF ~cfg.has_seeds THEN Raise("IncorrectURLError")
    ELSE IF ~cfg.has_count THEN Raise("IncorrectNumberOfArticlesError")
    ELSE IF ~IsInstanceInt(cfg.count) \/ cfg.count.n <= 0
        THEN Raise("IncorrectNumberOfArticlesError")
    ELSE IF cfg.count.n > MaxCount THEN Raise("NumberOfArticlesOutOfRangeError")
    ELSE IF ~cfg.seeds.is_list \/ Len(cfg.seeds.items) = 0
        THEN Raise("IncorrectURLError")
    ELSE IF ~_is_valid_url(cfg.seeds.items[1])
        THEN Raise("IncorrectURLError")
    ELSE [err |-> "none", seed_urls |-> cfg.seeds.items,
          max_articles |-> cfg.count.n]

validate_config(cfg) ==
    IF ~cfg.has_seeds THEN Raise("IncorrectURLError")
    ELSE IF ~cfg.has_count THEN Raise("IncorrectNumberOfArticlesError")
    ELSE IF ~IsInstanceInt(cfg.count) \/ cfg.count.n <= 0
        THEN Raise("IncorrectNumberOfArticlesError")
    ELSE IF cfg.count.n > MaxCount THEN Raise("NumberOfArticlesOutOfRangeError")
    ELSE IF ~cfg.seeds.is_list \/ Len(cfg.seeds.items) = 0
        THEN Raise("IncorrectURLError")
    ELSE IF \E i \in 1..Len(cfg.seeds.items) : ~_is_valid_url(cfg.seeds.items[i])
        THEN Raise("IncorrectURLError")
    ELSE [err |-> "none", seed_urls |-> cfg.seeds.items,
          max_articles |-> cfg.count.n]

(***************************************************************************)
(* CrawlerRecursive                                                        *)
(***************************************************************************)
NoFile == [exists |-> FALSE, text |-> <<>>]

\* CrawlerRecursive.get_cache: the restored urls, or <<>> to start fresh
get_cache(file) ==
    IF ~file.exists THEN <<>>
    ELSE IF Len(file.text) = 0 THEN <<>>
    ELSE Split(file.text)

\* update_cache writing the new href alone
update_cache_href_only(list, href) == [exists |-> TRUE, text |-> href]

\* CrawlerRecursive.update_cache: the file is written from self.urls
update_cache(list, href) == [exists |-> TRUE, text |-> Join(list)]

\* find_all("a"): every anchor, whatever its class
FileNodesAnyClass(page) == page

\* find_all("a", {"class": "file"})
FileNodes(page) == SelectSeq(page, LAMBDA node : node.class = "file")

Frame(seed, phase, links) ==
    [seed |-> seed, phase |-> phase, links |-> links, second |-> FALSE]

\* what requests.get / _get_page can do for a link
FetchOutcomes(link) ==
    (IF link \in DOMAIN web THEN {"ok"} ELSE {}) \cup {"none", "connection_error"}

Top == stack[Len(stack)]

\* the page URLs _get_page was called with in this run
Fetched == {fetchSeq[i].url : i \in 1..Len(fetchSeq)}

(***************************************************************************)
(* scrapper.py __main__, one action per statement; the crawl itself is one *)
(* action per page fetch and per loop iteration                            *)
(***************************************************************************)
CrawlInit ==
    /\ config \in {c \in Configs : WellFormed(c)}
    /\ web \in Webs
    /\ cacheFile = NoFile
    /\ assetsCleared = FALSE
    /\ pc = "validate_config"
    /\ err = "none"
    /\ raisedIn = "none"
    /\ runs = 1
    /\ seed_urls = <<>>
    /\ max_articles = 0
    /\ urls = <<>>
    /\ crawled = {}
    /\ stack = <<>>
    /\ fetchSeq = <<>>
    /\ startUrls = <<>>
    /\ prevUrls = <<>>
    /\ startFresh = FALSE
    /\ prevFetched = {}
    /\ prevFresh = FALSE
    /\ saved = 0

\* seeds, limit = validate_config(CRAWLER_CONFIG_PATH)
ValidateConfig ==
    /\ pc = "validate_config"
    /\ LET r == validate_config(config) IN
        IF r.err # "none"
        THEN /\ pc' = "raised"
             /\ err' = r.err
             /\ raisedIn' = "validate_config"
             /\ UNCHANGED <<seed_urls, max_articles>>
        ELSE /\ pc' = "prepare_environment"
             /\ seed_urls' = r.seed_urls
             /\ max_articles' = r.max_articles
             /\ UNCHANGED <<err, raisedIn>>
    /\ UNCHANGED <<config, web, cacheFile, assetsCleared, runs, urls, crawled,
                   stack, fetchSeq, startUrls, prevUrls, startFresh,
                   prevFetched, prevFresh, saved>>
    /\ UNCHANGED annVars

\* prepare_environment(ASSETS_PATH): the articles folder is emptied; the
\* cache file lies outside it and is kept
PrepareEnvironment ==
    /\ pc = "prepare_environment"
    /\ assetsCleared' = TRUE
    /\ pc' = "construct"
    /\ UNCHANGED <<config, web, cacheFile, err, raisedIn, runs, seed_urls,
                   max_articles, urls, crawled, stack, fetchSeq, startUrls,
                   prevUrls, startFresh, prevFetched, prevFresh, saved>>
    /\ UNCHANGED annVars

\* crawler = CrawlerRecursive(seed_urls=seeds, max_articles=limit)
Construct ==
    /\ pc = "construct"
    /\ urls' = get_cache(cacheFile)
    /\ crawled' = Range(get_cache(cacheFile))
    /\ startUrls' = get_cache(cacheFile)
    /\ startFresh' = ~cacheFile.exists
    /\ stack' = <<>>
    /\ pc' = "find_articles"
    /\ UNCHANGED <<config, web, cacheFile, assetsCleared, err, raisedIn, runs,
                   seed_urls, max_articles, fetchSeq, prevUrls,
                   prevFetched, prevFresh, saved>>
    /\ UNCHANGED annVars

\* list.pop(0): the first element and the rest
pop_first(list) == [item |-> Head(list), rest |-> Tail(list)]

\* list.pop(): the last element and the rest
pop(list) == [item |-> Last(list), rest |-> Front(list)]

\* CrawlerRecursive.find_articles: self.recurse(self.seed_urls.pop())
FindArticles ==
    /\ pc = "find_articles"
    /\ stack' = <<Frame(pop(seed_urls).item, "enter", <<>>)>>
    /\ seed_urls' = pop(seed_urls).rest
    /\ pc' = "crawl"
    /\ UNCHANGED <<config, web, cacheFile, assetsCleared, err, raisedIn, runs,
                   max_articles, urls, crawled, fetchSeq, startUrls, prevUrls,
                   startFresh, prevFetched, prevFresh, saved>>
    /\ UNCHANGED annVars

\* recurse: a test that lets one more page through
MaxReachedStrict == Len(urls) > max_articles

\* recurse: if len(self.urls) >= self.max_articles
MaxReached == Len(urls) >= max_articles

\* recurse: the page is fetched without being remembered
MarkCrawledForgotten(seed) == crawled

\* recurse: self._crawled.add(seed)
MarkCrawled(seed) == crawled \cup {seed}

\* recurse: the two early returns
RecurseSkip ==
    /\ pc = "crawl"
    /\ stack # <<>>
    /\ Top.phase = "enter"
    /\ MaxReached \/ Top.seed \in crawled
    /\ stack' = Front(stack)
    /\ UNCHANGED <<config, web, cacheFile, assetsCleared, pc, err, raisedIn,
                   runs, seed_urls, max_articles, urls, crawled, fetchSeq,
                   startUrls, prevUrls, startFresh, prevFetched, prevFresh,
                   saved>>
    /\ UNCHANGED annVars

\* recurse: mark the page, fetch it and classify it
RecurseFetch ==
    /\ pc = "crawl"
    /\ stack # <<>>
    /\ Top.phase = "enter"
    /\ ~(MaxReached \/ Top.seed \in crawled)
    /\ \E outcome \in FetchOutcomes(Top.seed) :
        LET seed == Top.seed
            page == IF outcome = "ok" THEN web[seed] ELSE <<>>
        IN
        /\ crawled' = MarkCrawled(seed)
        /\ fetchSeq' = Append(fetchSeq, [url |-> seed, outcome |-> outcome])
        /\ IF outcome = "connection_error"
           THEN \* except requests.exceptions.ConnectionError: return
                /\ stack' = Front(stack)
                /\ UNCHANGED <<pc, err, raisedIn>>
           ELSE IF Contains(seed, "showToc")
           THEN \* self._extract_url(page), which returns at once on None
                /\ stack' = IF outcome = "none" THEN Front(stack)
                            ELSE Front(stack)
                                 \o <<Frame(seed, "extract", FileNodes(page))>>
                /\ UNCHANGED <<pc, err, raisedIn>>
           ELSE IF outcome = "none"
           THEN \* None.find_all: AttributeError leaves every recurse frame
                /\ stack' = <<>>
                /\ pc' = "raised"
                /\ err' = "AttributeError"
                /\ raisedIn' = "find_articles"
           ELSE /\ stack' = Front(stack) \o <<Frame(seed, "loop", page)>>
                /\ UNCHANGED <<pc, err, raisedIn>>
    /\ UNCHANGED <<config, web, cacheFile, assetsCleared, runs, seed_urls,
                   max_articles, urls, startUrls, prevUrls, startFresh,
                   prevFetched, prevFresh, saved>>
    /\ UNCHANGED annVars

\* CrawlerRecursive._add_url: the cache is written before the append
_add_url(href) ==
    /\ cacheFile' = update_cache(urls, href)
    /\ urls' = Append(urls, href)

\* Crawler._extract_url: one iteration of the loop over the file links, or
\* the end of the loop and the return of recurse
ExtractStep ==
    /\ pc = "crawl"
    /\ stack # <<>>
    /\ Top.phase = "extract"
    /\ IF Top.links = <<>>
       THEN /\ stack' = Front(stack)
            /\ UNCHANGED <<urls, cacheFile>>
       ELSE LET node == Head(Top.links) IN
            IF Contains(node.href, "issue")
            THEN /\ stack' = [stack EXCEPT ![Len(stack)].links = Tail(@)]
                 /\ UNCHANGED <<urls, cacheFile>>
            ELSE IF Len(urls) = max_articles
            THEN /\ stack' = Front(stack)
                 /\ UNCHANGED <<urls, cacheFile>>
            ELSE /\ _add_url(node.href)
                 /\ stack' = [stack EXCEPT ![Len(stack)].links = Tail(@)]
    /\ UNCHANGED <<config, web, assetsCleared, pc, err, raisedIn, runs,
                   seed_urls, max_articles, crawled, fetchSeq, startUrls,
                   prevUrls, startFresh, prevFetched, prevFresh, saved>>
    /\ UNCHANGED annVars

\* recurse: the loop over the links of an archive page. A link is handled in
\* up to two steps: the call for an issue link, then the call for an archive
\* link (second is set while the first call runs).
LoopStep ==
    /\ pc = "crawl"
    /\ stack # <<>>
    /\ Top.phase = "loop"
    /\ IF Top.links = <<>>
       THEN stack' = Front(stack)
       ELSE LET link == Head(Top.links)
                next == [Top EXCEPT !.links = Tail(@), !.second = FALSE]
                call == Frame(link.href, "enter", <<>>)
            IN
            IF ~link.has_href
            THEN stack' = Front(stack) \o <<next>>
            ELSE IF /\ ~Top.second
                    /\ Contains(Top.seed, "archive")
                    /\ Contains(link.href, "showToc")
            THEN stack' = Front(stack) \o <<[Top EXCEPT !.second = TRUE], call>>
            ELSE IF Contains(link.href, "archive")
            THEN stack' = Front(stack) \o <<next, call>>
            ELSE stack' = Front(stack) \o <<next>>
    /\ UNCHANGED <<config, web, cacheFile, assetsCleared, pc, err, raisedIn,
                   runs, seed_urls, max_articles, urls, crawled, fetchSeq,
                   startUrls, prevUrls, startFresh, prevFetched, prevFresh,
                   saved>>
    /\ UNCHANGED annVars

\* find_articles returns to __main__
FindArticlesReturn ==
    /\ pc = "crawl"
    /\ stack = <<>>
    /\ pc' = "parse"
    /\ UNCHANGED <<config, web, cacheFile, assetsCleared, err, raisedIn, runs,
                   seed_urls, max_articles, urls, crawled, stack, fetchSeq,
                   startUrls, prevUrls, startFresh, prevFetched, prevFresh,
                   saved>>
    /\ UNCHANGED annVars

\* the loop over crawler.urls: HTMLParser.parse and save_raw for each url;
\* a missing element of an article page ends the run
ParseArticles ==
    /\ pc = "parse"
    /\ \E n \in 0..Len(urls) :
        /\ saved' = n
        /\ IF n = Len(urls)
           THEN /\ pc' = "done"
                /\ UNCHANGED <<err, raisedIn>>
           ELSE /\ pc' = "raised"
                /\ err' = "AttributeError"
                /\ raisedIn' = "parse"
    /\ UNCHANGED <<config, web, cacheFile, assetsCleared, runs, seed_urls,
                   max_articles, urls, crawled, stack, fetchSeq, startUrls,
                   prevUrls, startFresh, prevFetched, prevFresh>>
    /\ UNCHANGED annVars

\* the script is started again, with any configuration; only the cache file
\* and the site outlive the process
Rerun ==
    /\ pc \in {"done", "raised"}
    /\ runs < MaxRuns
    /\ runs' = runs + 1
    /\ config' \in {c \in Configs : WellFormed(c)}
    /\ pc' = "validate_config"
    /\ err' = "none"
    /\ raisedIn' = "none"
    /\ assetsCleared' = FALSE
    /\ seed_urls' = <<>>
    /\ max_articles' = 0
    /\ urls' = <<>>
    /\ crawled' = {}
    /\ stack' = <<>>
    /\ fetchSeq' = <<>>
    /\ startUrls' = <<>>
    /\ saved' = 0
    /\ prevUrls' = urls
    /\ startFresh' = FALSE
    /\ prevFetched' = Fetched
    /\ prevFresh' = startFresh
    /\ UNCHANGED <<web, cacheFile>>
    /\ UNCHANGED annVars


(***************************************************************************)
(* The dataset directory                                                   *)
(***************************************************************************)
\* largest article id among the files the directory starts with
MaxId == 2

\* number of annotate runs against the same directory
MaxAnnotateRuns == 2

\* a file name is its digits, in order, and its ending: "01_raw.txt" is
\* [digits |-> <<0, 1>>, suffix |-> "_raw.txt"]
Name(digits, suffix) == [digits |-> digits, suffix |-> suffix]

RawNames == {Name(<<i>>, "_raw.txt") : i \in 1..MaxId} \cup {Name(<<0, 1>>, "_raw.txt")}
MetaNames == {Name(<<i>>, "_meta.json") : i \in 1..MaxId} \cup {Name(<<>>, "_meta.json")}
OtherNames == {Name(<<>>, ".pdf")}

ABSENT == <<"(absent)">>
TEXT_NONE == <<"42", "\n">>
TEXT_MIX == <<"Privet", "\n", "xyz", " ", "idesh">>
META_TEXT == <<"{}">>

RawOptions == {ABSENT, <<>>, TEXT_NONE, TEXT_MIX}
MetaOptions == {ABSENT, <<>>, META_TEXT}

NoFiles == [nm \in {} |-> <<>>]

Restrict(f, S) == [x \in S |-> f[x]]

\* the directories the annotate scripts may be started on
Datasets ==
    {Restrict(rc @@ mc, {nm \in DOMAIN (rc @@ mc) : (rc @@ mc)[nm] # ABSENT}) :
        rc \in [RawNames -> RawOptions],
        mc \in [MetaNames \cup OtherNames -> MetaOptions]}

\* int(digits)
RECURSIVE ToInt(_)
ToInt(digits) ==
    IF Len(digits) = 0 THEN 0 ELSE ToInt(Front(digits)) * 10 + Last(digits)

\* str(n) for n >= 0
RECURSIVE ToDigits(_)
ToDigits(n) == IF n < 10 THEN <<n>> ELSE ToDigits(n \div 10) \o <<n % 10>>

\* path.glob("*" + suffix)
Glob(files, suffix) == {nm \in DOMAIN files : nm.suffix = suffix}

\* _id_from_path: the digits of the name, or InconsistentDatasetError
_id_from_path(path) ==
    IF path.digits = <<>> THEN [ok |-> FALSE, id |-> 0]
    ELSE [ok |-> TRUE, id |-> ToInt(path.digits)]

\* sorted(map(_id_from_path, names))
RECURSIVE SortedIds(_)
SortedIds(names) ==
    IF names = {} THEN <<>>
    ELSE LET first == CHOOSE x \in names : \A y \in names :
                        _id_from_path(x).id <= _id_from_path(y).id
         IN <<_id_from_path(first).id>> \o SortedIds(names \ {first})

Min(a, b) == IF a <= b THEN a ELSE b

\* all(a == b for a, b in zip(ids, range(1, n + 1)))
ZipMatches(ids, n) == \A i \in 1..Min(Len(ids), n) : ids[i] = i

\* validate_dataset without the comparison of the two counts
validate_dataset_no_count(kind, files) ==
    IF kind = "missing" THEN "FileNotFoundError"
    ELSE IF kind # "dir" THEN "NotADirectoryError"
    ELSE IF DOMAIN files = {} THEN "EmptyDirectoryError"
    ELSE IF \E nm \in DOMAIN files : Len(files[nm]) = 0
        THEN "InconsistentDatasetError"
    ELSE IF \E nm \in Glob(files, "_meta.json") \cup Glob(files, "_raw.txt") :
                ~_id_from_path(nm).ok
        THEN "InconsistentDatasetError"
    ELSE LET meta_ids == SortedIds(Glob(files, "_meta.json"))
             raw_ids == SortedIds(Glob(files, "_raw.txt"))
         IN IF ~ZipMatches(meta_ids, Len(meta_ids)) THEN "InconsistentDatasetError"
            ELSE IF ~ZipMatches(raw_ids, Len(meta_ids)) THEN "InconsistentDatasetError"
            ELSE "none"

\* validate_dataset: the exception raised, or "none"
validate_dataset(kind, files) ==
    IF kind = "missing" THEN "FileNotFoundError"
    ELSE IF kind # "dir" THEN "NotADirectoryError"
    ELSE IF DOMAIN files = {} THEN "EmptyDirectoryError"
    ELSE IF \E nm \in DOMAIN files : Len(files[nm]) = 0
        THEN "InconsistentDatasetError"
    ELSE IF \E nm \in Glob(files, "_meta.json") \cup Glob(files, "_raw.txt") :
                ~_id_from_path(nm).ok
        THEN "InconsistentDatasetError"
    ELSE LET meta_ids == SortedIds(Glob(files, "_meta.json"))
             raw_ids == SortedIds(Glob(files, "_raw.txt"))
         IN IF ~ZipMatches(meta_ids, Len(meta_ids)) THEN "InconsistentDatasetError"
            ELSE IF ~ZipMatches(raw_ids, Len(meta_ids)) THEN "InconsistentDatasetError"
            ELSE IF Len(meta_ids) # Len(raw_ids) THEN "InconsistentDatasetError"
            ELSE "none"

(***************************************************************************)
(* CorpusManager and TextProcessingPipeline                                *)
(***************************************************************************)
\* Article(url, article_id), its text not loaded
Article(url, article_id) == [url |-> url, article_id |-> article_id]

\* _scan_dataset numbering the articles from 0
_scan_dataset_zero_based(files) ==
    LET raw == Glob(files, "_raw.txt")
        ids == {_id_from_path(nm).id - 1 : nm \in raw}
    IN [ok |-> \A nm \in raw : _id_from_path(nm).ok,
        storage |-> [i \in ids |-> Article("None", i)]]

\* CorpusManager._scan_dataset: _storage, later files overwriting earlier
\* ones with the same id
_scan_dataset(files) ==
    LET raw == Glob(files, "_raw.txt")
        ids == {_id_from_path(nm).id : nm \in raw}
    IN [ok |-> \A nm \in raw : _id_from_path(nm).ok,
        storage |-> [i \in ids |-> Article("None", i)]]

\* the orders in which a dict filled from glob() can be iterated
Orders(S) ==
    {o \in [1..Cardinality(S) -> S] : \A i, j \in 1..Cardinality(S) :
        o[i] = o[j] => i = j}

\* Mystem().analyze on one unit of the text
MystemUnit(tok) ==
    IF tok = "Privet"
        THEN [text |-> tok, has_analysis |-> TRUE,
              analysis |-> <<[lex |-> "privet", gr |-> "S,nom"]>>]
    ELSE IF tok = "idesh"
        THEN [text |-> tok, has_analysis |-> TRUE,
              analysis |-> <<[lex |-> "idti", gr |-> "V,ed,2-l"],
                             [lex |-> "idesh", gr |-> "S,nom"]>>]
    ELSE IF tok = "xyz"
        THEN [text |-> tok, has_analysis |-> TRUE, analysis |-> <<>>]
    ELSE [text |-> tok, has_analysis |-> FALSE, analysis |-> <<>>]

\* MorphAnalyzer().parse(word)[0].tag as the f-string prints it: the
\* grammemes of the lexeme, a space, the grammemes of the form
PymorphyTag(word) ==
    IF word = "Privet" THEN <<"NOUN,anim,masc", " ", "sing,nomn">>
    ELSE IF word = "idesh" THEN <<"VERB,impf,intr", " ", "sing,2per,pres,indc">>
    ELSE <<"UNKN">>

\* str.lower
Lower(word) == IF word = "Privet" THEN "privet" ELSE word

\* raw_text.replace("\n", " ")
ReplaceLinebreaks(text) ==
    [i \in 1..Len(text) |-> IF text[i] = "\n" THEN " " ELSE text[i]]

\* _process leaving the loop at the first unit without an analysis
RECURSIVE ProcessUnitsUntilGap(_)
ProcessUnitsUntilGap(units) ==
    IF units = <<>> THEN <<>>
    ELSE LET analysis == Head(units) IN
         IF ~analysis.has_analysis THEN <<>>
         ELSE IF analysis.analysis = <<>> THEN <<>>
         ELSE <<[original_word |-> analysis.text,
                 normalized_form |-> analysis.analysis[1].lex,
                 tags_mystem |-> analysis.analysis[1].gr,
                 tags_pymorphy |-> PymorphyTag(analysis.text)]>>
              \o ProcessUnitsUntilGap(Tail(units))

\* TextProcessingPipeline._process
RECURSIVE ProcessUnits(_)
ProcessUnits(units) ==
    IF units = <<>> THEN <<>>
    ELSE LET analysis == Head(units) IN
         IF ~analysis.has_analysis THEN ProcessUnits(Tail(units))
         ELSE IF analysis.analysis = <<>> THEN ProcessUnits(Tail(units))
         ELSE <<[original_word |-> analysis.text,
                 normalized_form |-> analysis.analysis[1].lex,
                 tags_mystem |-> analysis.analysis[1].gr,
                 tags_pymorphy |-> PymorphyTag(analysis.text)]>>
              \o ProcessUnits(Tail(units))

_process(raw_text) ==
    LET text == ReplaceLinebreaks(raw_text)
    IN ProcessUnits([i \in 1..Len(text) |-> MystemUnit(text[i])])

get_cleaned(token) == <<Lower(token.original_word)>>

get_single_tagged(token) ==
    <<token.normalized_form, "<", token.tags_mystem, ">">>

get_multiple_tagged(token) ==
    <<token.normalized_form, "<", token.tags_mystem, ">", "(">>
    \o token.tags_pymorphy \o <<")">>

\* Article.save_as: the artifact file of article `id` is (re)written
save_as(files, id, suffix, text) == (Name(ToDigits(id), suffix) :> text) @@ files

\* the three save_as calls of one iteration of TextProcessingPipeline.run
SaveArtifacts(files, id, tokens) ==
    save_as(
        save_as(
            save_as(files, id, "_cleaned.txt",
                    JoinWith(" ", [i \in 1..Len(tokens) |-> get_cleaned(tokens[i])])),
            id, "_single_tagged.txt",
            JoinWith(" ", [i \in 1..Len(tokens) |-> get_single_tagged(tokens[i])])),
        id, "_multiple_tagged.txt",
        JoinWith(" ", [i \in 1..Len(tokens) |-> get_multiple_tagged(tokens[i])]))

\* re.findall(r"([А-Яа-я]*)<V\S*(ед)\S*(2-л)\S*>", tagged): the lemmas of
\* the verbs tagged second person singular
RECURSIVE FindSecondPerson(_)
FindSecondPerson(tagged) ==
    IF Len(tagged) < 4 THEN <<>>
    ELSE IF tagged[2] = "<" /\ tagged[3] = "V,ed,2-l" /\ tagged[4] = ">"
        THEN <<<<tagged[1]>>>> \o FindSecondPerson(SubSeq(tagged, 5, Len(tagged)))
    ELSE FindSecondPerson(Tail(tagged))

ArtifactSuffixes == {"_cleaned.txt", "_single_tagged.txt", "_multiple_tagged.txt"}

\* the artifact files of a directory
Artifacts(files) ==
    Restrict(files, {nm \in DOMAIN files : nm.suffix \in ArtifactSuffixes})

(***************************************************************************)
(* pipeline.py main() and second_person.py __main__                        *)
(***************************************************************************)
AnnotateStart ==
    /\ apc = "validate_dataset"
    /\ aerr = "none"
    /\ araisedIn = "none"
    /\ storage = <<>>
    /\ pending = <<>>
    /\ matches = <<>>
    /\ validated = FALSE
    /\ corpusBuilt = FALSE
    /\ rawRead = FALSE
    /\ wrote = FALSE

DatasetInit ==
    /\ dsKind \in {"missing", "file", "dir"}
    /\ dsFiles \in (IF dsKind = "dir" THEN Datasets ELSE {NoFiles})
    /\ entry \in {"pipeline", "second_person"}
    /\ annRuns = 1
    /\ outFile = NoFile
    /\ AnnotateStart
    /\ dsAtStart = dsFiles
    /\ outAtStart = outFile
    /\ prevPipelineDone = FALSE

\* neither annotate script runs
AnnotateIdle ==
    /\ dsKind = "missing"
    /\ dsFiles = NoFiles
    /\ entry = "none"
    /\ annRuns = 0
    /\ outFile = NoFile
    /\ apc = "idle"
    /\ aerr = "none"
    /\ araisedIn = "none"
    /\ storage = <<>>
    /\ pending = <<>>
    /\ matches = <<>>
    /\ validated = FALSE
    /\ corpusBuilt = FALSE
    /\ rawRead = FALSE
    /\ wrote = FALSE
    /\ dsAtStart = NoFiles
    /\ outAtStart = NoFile
    /\ prevPipelineDone = FALSE

\* the scrapper does not run
CrawlIdle ==
    /\ config = [has_seeds |-> FALSE, seeds |-> NotAList, has_count |-> FALSE,
                 count |-> JsonStr]
    /\ web = WebOneIssue
    /\ cacheFile = NoFile
    /\ assetsCleared = FALSE
    /\ pc = "idle"
    /\ err = "none"
    /\ raisedIn = "none"
    /\ runs = 0
    /\ seed_urls = <<>>
    /\ max_articles = 0
    /\ urls = <<>>
    /\ crawled = {}
    /\ stack = <<>>
    /\ fetchSeq = <<>>
    /\ startUrls = <<>>
    /\ startFresh = FALSE
    /\ prevUrls = <<>>
    /\ prevFetched = {}
    /\ prevFresh = FALSE
    /\ saved = 0

\* ValidateDataset with the exception swallowed: the script goes on
ValidateDatasetIgnored ==
    /\ apc = "validate_dataset"
    /\ apc' = "corpus"
    /\ validated' = (validate_dataset(dsKind, dsFiles) = "none")
    /\ UNCHANGED <<aerr, araisedIn>>
    /\ UNCHANGED <<dsKind, dsFiles, entry, annRuns, storage, pending, matches,
                   outFile, corpusBuilt, rawRead, wrote, dsAtStart, outAtStart,
                   prevPipelineDone>>
    /\ UNCHANGED crawlVars

\* validate_dataset(ASSETS_PATH)
ValidateDataset ==
    /\ apc = "validate_dataset"
    /\ LET e == validate_dataset(dsKind, dsFiles) IN
        IF e # "none"
        THEN /\ apc' = "raised"
             /\ aerr' = e
             /\ araisedIn' = "validate_dataset"
             /\ UNCHANGED validated
        ELSE /\ apc' = "corpus"
             /\ validated' = TRUE
             /\ UNCHANGED <<aerr, araisedIn>>
    /\ UNCHANGED <<dsKind, dsFiles, entry, annRuns, storage, pending, matches,
                   outFile, corpusBuilt, rawRead, wrote, dsAtStart, outAtStart,
                   prevPipelineDone>>
    /\ UNCHANGED crawlVars

\* corpus_manager = CorpusManager(ASSETS_PATH), and the start of the loop
\* over corpus_manager.get_articles().values()
BuildCorpus ==
    /\ apc = "corpus"
    /\ corpusBuilt' = TRUE
    /\ LET scan == _scan_dataset(dsFiles) IN
        IF ~scan.ok
        THEN /\ apc' = "raised"
             /\ aerr' = "InconsistentDatasetError"
             /\ araisedIn' = "CorpusManager"
             /\ UNCHANGED <<storage, pending>>
        ELSE /\ storage' = scan.storage
             /\ pending' \in Orders(DOMAIN scan.storage)
             /\ apc' = IF entry = "pipeline" THEN "run" ELSE "scan"
             /\ UNCHANGED <<aerr, araisedIn>>
    /\ UNCHANGED <<dsKind, dsFiles, entry, annRuns, matches, outFile, validated,
                   rawRead, wrote, dsAtStart, outAtStart, prevPipelineDone>>
    /\ UNCHANGED crawlVars

\* TextProcessingPipeline.run: one article, or the end of the loop
RunStep ==
    /\ apc = "run"
    /\ IF pending = <<>>
       THEN /\ apc' = "done"
            /\ UNCHANGED <<dsFiles, pending, aerr, araisedIn, rawRead, wrote>>
       ELSE LET article == storage[Head(pending)]
                raw == Name(ToDigits(article.article_id), "_raw.txt")
            IN
            /\ rawRead' = TRUE
            /\ IF raw \notin DOMAIN dsFiles
               THEN \* article.get_raw_text() finds no file
                    /\ apc' = "raised"
                    /\ aerr' = "FileNotFoundError"
                    /\ araisedIn' = "run"
                    /\ UNCHANGED <<dsFiles, pending, wrote>>
               ELSE /\ dsFiles' = SaveArtifacts(dsFiles, article.article_id,
                                                _process(dsFiles[raw]))
                    /\ wrote' = TRUE
                    /\ pending' = Tail(pending)
                    /\ UNCHANGED <<apc, aerr, araisedIn>>
    /\ UNCHANGED <<dsKind, entry, annRuns, storage, matches, outFile, validated,
                   corpusBuilt, dsAtStart, outAtStart, prevPipelineDone>>
    /\ UNCHANGED crawlVars

\* second_person.py: one article of the loop, get_file reading its
\* single-tagged artifact
ScanStep ==
    /\ apc = "scan"
    /\ pending # <<>>
    /\ LET article == storage[Head(pending)]
           tagged == Name(ToDigits(article.article_id), "_single_tagged.txt")
       IN
       IF tagged \notin DOMAIN dsFiles
       THEN /\ apc' = "raised"
            /\ aerr' = "FileNotFoundError"
            /\ araisedIn' = "get_file"
            /\ UNCHANGED <<pending, matches>>
       ELSE /\ matches' = matches \o FindSecondPerson(dsFiles[tagged])
            /\ pending' = Tail(pending)
            /\ UNCHANGED <<apc, aerr, araisedIn>>
    /\ UNCHANGED <<dsKind, dsFiles, entry, annRuns, storage, outFile, validated,
                   corpusBuilt, rawRead, wrote, dsAtStart, outAtStart,
                   prevPipelineDone>>
    /\ UNCHANGED crawlVars

\* second_person.py: file.write(" ".join(matches))
WriteMatches ==
    /\ apc = "scan"
    /\ pending = <<>>
    /\ outFile' = [exists |-> TRUE, text |-> JoinWith(" ", matches)]
    /\ wrote' = TRUE
    /\ apc' = "done"
    /\ UNCHANGED <<dsKind, dsFiles, entry, aerr, araisedIn, annRuns, storage,
                   pending, matches, validated, corpusBuilt, rawRead, dsAtStart,
                   outAtStart, prevPipelineDone>>
    /\ UNCHANGED crawlVars

\* one of the two scripts is started again on the directory as it is
AnnotateRerun ==
    /\ apc \in {"done", "raised"}
    /\ annRuns < MaxAnnotateRuns
    /\ annRuns' = annRuns + 1
    /\ entry' \in {"pipeline", "second_person"}
    /\ apc' = "validate_dataset"
    /\ aerr' = "none"
    /\ araisedIn' = "none"
    /\ storage' = <<>>
    /\ pending' = <<>>
    /\ matches' = <<>>
    /\ validated' = FALSE
    /\ corpusBuilt' = FALSE
    /\ rawRead' = FALSE
    /\ wrote' = FALSE
    /\ dsAtStart' = dsFiles
    /\ outAtStart' = outFile
    /\ prevPipelineDone' = (entry = "pipeline" /\ apc = "done")
    /\ UNCHANGED <<dsKind, dsFiles, outFile>>
    /\ UNCHANGED crawlVars

(***************************************************************************)
(* Specifications                                                          *)
(***************************************************************************)
Init == CrawlInit /\ AnnotateIdle

Next ==
    \/ ValidateConfig
    \/ PrepareEnvironment
    \/ Construct
    \/ FindArticles
    \/ RecurseSkip
    \/ RecurseFetch
    \/ ExtractStep
    \/ LoopStep
    \/ FindArticlesReturn
    \/ ParseArticles
    \/ Rerun

\* runs of scrapper.py against one site and one cache file
Spec == Init /\ [][Next]_vars

\* the steps of find_articles: the interpreter runs the one thread on, so a
\* crawl that can take a step takes one
CrawlStep ==
    \/ RecurseSkip
    \/ RecurseFetch
    \/ ExtractStep
    \/ LoopStep
    \/ FindArticlesReturn

FairSpec == Spec /\ WF_vars(CrawlStep)

AnnotateNext ==
    \/ ValidateDataset
    \/ BuildCorpus
    \/ RunStep
    \/ ScanStep
    \/ WriteMatches
    \/ AnnotateRerun

AnnotateInit == CrawlIdle /\ DatasetInit

\* runs of pipeline.py and second_person.py against one dataset directory
AnnotateSpec == AnnotateInit /\ [][AnnotateNext]_vars

(***************************************************************************)
(* Properties of the crawler                                               *)
(***************************************************************************)
\* a CrawlerRecursive object exists
CrawlerBuilt ==
    \/ pc \in {"find_articles", "crawl", "parse", "done"}
    \/ pc = "raised" /\ raisedIn \in {"find_articles", "parse"}

\* C1: in every state of a CrawlerRecursive, after construction (with or
\* without a cache file to restore) and at every step of find_articles,
\* len(urls) is at most max_articles.
C1_UrlsWithinMax == CrawlerBuilt => Len(urls) <= max_articles

\* C2: when a crawler that started without a cache file recorded N >= 1 URLs,
\* the crawler constructed next restores the same N URLs in the same order
\* and a visited set equal to the set of those URLs.
C2_CacheRoundTrip ==
    (pc = "find_articles" /\ runs > 1 /\ prevFresh /\ Len(prevUrls) >= 1)
        => (urls = prevUrls /\ crawled = Range(prevUrls))

\* C3: no URL occurs more than once in urls, also after restoring from the
\* cache of an earlier crawl and crawling the same site again.
C3_NoDuplicateUrls == NoDuplicates(urls)

\* C4: a crawler constructed from the cache left by an earlier crawl has every
\* page the earlier crawl visited in its visited set, and fetches none of
\* those pages again.
C4_ResumeSkipsVisited ==
    (CrawlerBuilt /\ runs > 1 /\ startUrls # <<>>)
        => (prevFetched \subseteq crawled /\ Fetched \cap prevFetched = {})

\* C5: a failed page fetch (a connection error, or no page returned) only
\* abandons that call of recurse: urls is unchanged, the calling frames stay
\* as they are so that the remaining links are traversed, the page is marked
\* visited so that it is not fetched again, and nothing is raised.
C5_FetchFailureSkipsBranch ==
    [][(Len(fetchSeq') = Len(fetchSeq) + 1 /\ Last(fetchSeq').outcome # "ok")
        => /\ urls' = urls
           /\ stack' = Front(stack)
           /\ Last(fetchSeq').url \in crawled'
           /\ pc' = "crawl"]_vars

(***************************************************************************)
(* Properties of validate_config and of the crawl entry point              *)
(***************************************************************************)
\* the count is present and is not a positive int (json.load's int or bool)
CountNotPositiveInt(cfg) ==
    cfg.has_count /\ (~IsInstanceInt(cfg.count) \/ cfg.count.n <= 0)

CountTooBig(cfg) ==
    cfg.has_count /\ IsInstanceInt(cfg.count) /\ cfg.count.n > MaxCount

HasInvalidSeed(cfg) ==
    /\ cfg.has_seeds
    /\ cfg.seeds.is_list
    /\ \E i \in 1..Len(cfg.seeds.items) :
        ~(/\ Len(cfg.seeds.items[i]) > 0
          /\ cfg.seeds.items[i][1] \in {"http://", "https://"})

\* validate_config raised e, and the run did nothing else
RaisedInValidation(e) ==
    /\ pc = "raised"
    /\ raisedIn = "validate_config"
    /\ err = e
    /\ ~assetsCleared
    /\ fetchSeq = <<>>

\* C6 as stated: whatever the seed_urls entry is (valid, invalid or missing),
\* a count that is not an integer or is <= 0 raises
\* IncorrectNumberOfArticlesError and an integer count > 200 raises
\* NumberOfArticlesOutOfRangeError; the output directory is then not cleared
\* and no page is fetched.
C6_CountErrorWhateverSeeds ==
    pc # "validate_config" =>
        /\ CountNotPositiveInt(config)
            => RaisedInValidation("IncorrectNumberOfArticlesError")
        /\ CountTooBig(config)
            => RaisedInValidation("NumberOfArticlesOutOfRangeError")

\* C6 amended: the same for every config that has a seed_urls key, whatever
\* its value, and also when the count key is missing; a config without a
\* seed_urls key raises IncorrectURLError whatever the count is. In all these
\* cases the output directory is not cleared and no page is fetched.
C6_CountErrorWhenSeedsPresent ==
    pc # "validate_config" =>
        /\ (config.has_seeds /\ (~config.has_count \/ CountNotPositiveInt(config)))
            => RaisedInValidation("IncorrectNumberOfArticlesError")
        /\ (config.has_seeds /\ CountTooBig(config))
            => RaisedInValidation("NumberOfArticlesOutOfRangeError")
        /\ ~config.has_seeds => RaisedInValidation("IncorrectURLError")

\* a count of 0 with a valid seed list was rejected on a second run
C6_Witness ==
    /\ RaisedInValidation("IncorrectNumberOfArticlesError")
    /\ runs = 2
    /\ config.count = JsonInt(0)
    /\ config.seeds = List(<<ARCHIVE1>>)

\* C7 as stated: a seed_urls list with an entry that does not start with
\* http:// or https:// raises IncorrectURLError whatever the article count is,
\* before any page is fetched.
C7_UrlErrorWhateverCount ==
    (pc # "validate_config" /\ HasInvalidSeed(config) /\ config.has_count)
        => RaisedInValidation("IncorrectURLError")

\* C7 amended: such a list raises IncorrectURLError when the count is an int
\* in 1..200; when the count is missing, not an int or <= 0 the error is
\* IncorrectNumberOfArticlesError and when it is > 200 it is
\* NumberOfArticlesOutOfRangeError. In every case validate_config raises
\* before the output directory is cleared or any page is fetched.
C7_UrlErrorWhenCountValid ==
    (pc # "validate_config" /\ HasInvalidSeed(config))
        => RaisedInValidation(
            IF ~config.has_count \/ CountNotPositiveInt(config)
                THEN "IncorrectNumberOfArticlesError"
            ELSE IF CountTooBig(config) THEN "NumberOfArticlesOutOfRangeError"
            ELSE "IncorrectURLError")

\* a list whose second entry is a relative url was rejected with a valid count
C7_Witness ==
    /\ RaisedInValidation("IncorrectURLError")
    /\ config.seeds = List(<<ARCHIVE1, BAD_REL>>)
    /\ config.count = JsonInt(200)

(***************************************************************************)
(* Properties of the traversal                                             *)
(***************************************************************************)
Take(list, n) == SubSeq(list, 1, IF n < Len(list) THEN n ELSE Len(list))

IsPrefix(short, long) ==
    /\ Len(short) <= Len(long)
    /\ SubSeq(long, 1, Len(short)) = short

\* the targets of the file-class links of a page that do not contain "issue",
\* in page link order
RECURSIVE RecordableTargets(_)
RecordableTargets(page) ==
    IF page = <<>> THEN <<>>
    ELSE LET node == Head(page) IN
         (IF node.class = "file" /\ ~Contains(node.href, "issue")
            THEN <<node.href>> ELSE <<>>)
         \o RecordableTargets(Tail(page))

\* the recordable targets of the issue pages among the first k fetches, in
\* fetch order
RECURSIVE IssueTargets(_)
IssueTargets(k) ==
    IF k = 0 THEN <<>>
    ELSE IssueTargets(k - 1)
         \o (IF /\ fetchSeq[k].outcome = "ok"
                /\ Contains(fetchSeq[k].url, "showToc")
               THEN RecordableTargets(web[fetchSeq[k].url]) ELSE <<>>)

\* C11: in a crawl that started without a cache file, each fetched issue page
\* contributes exactly its first (max_articles - already recorded) file-class
\* links whose target does not contain "issue", in page link order: urls is
\* always a prefix of the recordable targets of the fetched issue pages cut at
\* max_articles, and is equal to it whenever no page is being extracted.
C11_IssuePageContribution ==
    (CrawlerBuilt /\ startFresh)
        => LET expected == Take(IssueTargets(Len(fetchSeq)), max_articles) IN
           /\ IsPrefix(urls, expected)
           /\ (stack = <<>> \/ Top.phase # "extract") => urls = expected

\* a fresh crawl met the issue file link, recorded two articles of the issue
\* page and left the third one out at the cap
C11_Witness ==
    /\ pc = "parse"
    /\ startFresh
    /\ web = WebOneIssue
    /\ max_articles = 2
    /\ urls = <<ART_A, ART_B>>
    /\ TOC1 \in Fetched

\* what the cache file holds is what urls holds, but for the last discovery
CacheTrailsUrls ==
    CrawlerBuilt =>
        IF cacheFile.exists
        THEN \/ get_cache(cacheFile) = urls
             \/ urls # <<>> /\ get_cache(cacheFile) = Front(urls)
        ELSE urls = <<>>

\* C12: during a caching crawl, also one that continues from a restored
\* cache, every rewrite of the cache file keeps what the file held as a prefix
\* of the new content (the text, and the list of URLs read back from it), the
\* file is never removed, and after every step the file lacks at most the most
\* recent discovery relative to urls.
C12_CacheOnlyGrows ==
    [][/\ cacheFile.exists =>
            /\ cacheFile'.exists
            /\ IsPrefix(cacheFile.text, cacheFile'.text)
            /\ IsPrefix(get_cache(cacheFile), get_cache(cacheFile'))
       /\ CacheTrailsUrls']_vars

\* a crawl that restored a cache went on recording, and the rewritten file
\* holds everything but the last discovery
C12_Witness ==
    /\ CrawlerBuilt
    /\ runs = 2
    /\ startUrls # <<>>
    /\ Len(urls) > Len(startUrls)
    /\ IsPrefix(startUrls, urls)
    /\ get_cache(cacheFile) = Front(urls)

\* frame k of the stack is a fetched archive page that its caller, an archive
\* page too, recursed into through one of its links
ArchiveCallFromArchive(k) ==
    /\ k > 1
    /\ stack[k].phase = "loop"
    /\ Contains(stack[k].seed, "archive")
    /\ stack[k - 1].phase = "loop"
    /\ Contains(stack[k - 1].seed, "archive")

\* C13: for every archive page traversed by recurse, every link of the page
\* that leads to an issue page (href containing showToc) is recursed into
\* before any link of the page that leads to a further archive page, whatever
\* the order of the links: while a further archive page reached from an
\* archive page is being traversed, no issue link of the calling page is still
\* waiting for its turn.
C13_IssuesBeforeArchives ==
    \A k \in 1..Len(stack) :
        ArchiveCallFromArchive(k) =>
            \A i \in 1..Len(stack[k - 1].links) :
                LET link == stack[k - 1].links[i] IN
                ~(link.has_href /\ Contains(link.href, "showToc"))

\* the page URLs of the fetches, in fetch order
FetchedUrls == [i \in 1..Len(fetchSeq) |-> fetchSeq[i].url]

\* C14: find_articles terminates (it returns or raises) on every link graph
\* of the sites, also where archive pages link to each other: a fetched page
\* is in the visited set, the visited set loses no element during a crawl,
\* and no page URL is fetched twice by one crawler instance.
C14_FindArticlesTerminates ==
    /\ [](Fetched \subseteq crawled /\ NoDuplicates(FetchedUrls))
    /\ [][(pc \in {"find_articles", "crawl"}) => (crawled \subseteq crawled')]_vars
    /\ (pc = "crawl" ~> pc \in {"parse", "raised"})

\* find_articles returned from a site whose two archive pages link to each
\* other, after fetching both
C14_Witness ==
    /\ pc = "parse"
    /\ web = WebTwoArchives
    /\ {ARCHIVE1, ARCHIVE2} \subseteq Fetched
    /\ Len(fetchSeq) >= 3

\* C15: once len(urls) has reached max_articles, no step of find_articles
\* fetches a page or marks one visited, urls stays at or above the cap, and a
\* recurse call that is entered returns at once; a crawler restored from a
\* cache holding max_articles or more URLs fetches nothing.
C15_NoFetchOnceFull ==
    [][/\ (pc = "crawl" /\ Len(urls) >= max_articles) =>
            /\ fetchSeq' = fetchSeq
            /\ crawled' = crawled
            /\ Len(urls') >= max_articles
            /\ (stack # <<>> /\ Top.phase = "enter") => stack' = Front(stack)
       /\ (CrawlerBuilt' /\ Len(startUrls') >= max_articles') =>
            fetchSeq' = <<>>]_vars

\* the cap was reached during the crawl and a call for a page that was never
\* visited is about to return without fetching it
C15_Witness ==
    /\ pc = "crawl"
    /\ stack # <<>>
    /\ Top.phase = "enter"
    /\ Top.seed \notin crawled
    /\ Top.seed \in DOMAIN web
    /\ fetchSeq # <<>>
    /\ Len(urls) = max_articles

\* the targets of the links of a page
RECURSIVE LinkTargets(_)
LinkTargets(page) ==
    IF page = <<>> THEN {}
    ELSE (IF Head(page).has_href THEN {Head(page).href} ELSE {})
         \cup LinkTargets(Tail(page))

\* the k-th fetch is of a page that an earlier fetched page links to
ReachedByLink(k) ==
    \E j \in 1..(k - 1) :
        /\ fetchSeq[j].outcome = "ok"
        /\ fetchSeq[k].url \in LinkTargets(web[fetchSeq[j].url])

\* C16: find_articles of CrawlerRecursive starts from exactly one seed, the
\* last element of the seed list, and removes it from the list; the first
\* page fetched, if any, is that seed and every later one is the target of a
\* link of a page fetched before it, so no other seed is a starting point.
C16_LastSeedOnly ==
    (CrawlerBuilt /\ pc # "find_articles")
        => /\ seed_urls = Front(config.seeds.items)
           /\ \A k \in 1..Len(fetchSeq) :
                IF k = 1 THEN fetchSeq[k].url = Last(config.seeds.items)
                ELSE ReachedByLink(k)

\* find_articles returned after fetching the last seed, an issue page, alone:
\* the first seed, an archive page of the site, was left in the list
C16_Witness ==
    /\ pc = "parse"
    /\ config.seeds = List(<<ARCHIVE1, TOC1>>)
    /\ seed_urls = <<ARCHIVE1>>
    /\ Fetched = {TOC1}
    /\ urls # <<>>

(***************************************************************************)
(* Properties of the dataset validation and of the annotate scripts        *)
(***************************************************************************)
\* the files ending in suffix carry the ids 1..n, each once
IdsExactly(files, suffix, n) ==
    LET names == Glob(files, suffix) IN
    /\ \A nm \in names : nm.digits # <<>>
    /\ Cardinality(names) = n
    /\ {ToInt(nm.digits) : nm \in names} = 1..n

DatasetAccepted(kind, files) ==
    /\ kind = "dir"
    /\ DOMAIN files # {}
    /\ \A nm \in DOMAIN files : files[nm] # <<>>
    /\ \E n \in 0..Cardinality(DOMAIN files) :
        /\ IdsExactly(files, "_meta.json", n)
        /\ IdsExactly(files, "_raw.txt", n)

ExpectedError(kind, files) ==
    IF kind = "missing" THEN "FileNotFoundError"
    ELSE IF kind = "file" THEN "NotADirectoryError"
    ELSE IF DOMAIN files = {} THEN "EmptyDirectoryError"
    ELSE "InconsistentDatasetError"

\* C8: validate_dataset returns normally if and only if the path exists, is
\* a directory, has an entry, has no entry of size zero, and the meta ids and
\* the raw ids are each exactly 1..N for one N; otherwise it raises
\* FileNotFoundError, NotADirectoryError, EmptyDirectoryError or
\* InconsistentDatasetError, in that order of precedence.
C8_ValidateDatasetIff ==
    apc \notin {"idle", "validate_dataset"} =>
        IF DatasetAccepted(dsKind, dsAtStart)
        THEN validated /\ araisedIn # "validate_dataset"
        ELSE /\ ~validated
             /\ apc = "raised"
             /\ araisedIn = "validate_dataset"
             /\ aerr = ExpectedError(dsKind, dsAtStart)

\* a directory with two raw texts and two meta files was accepted
C8_Witness ==
    /\ apc = "corpus"
    /\ validated
    /\ Cardinality(Glob(dsFiles, "_raw.txt")) = 2
    /\ Cardinality(Glob(dsFiles, "_meta.json")) = 2

\* C9: when pipeline.py has completed on a dataset and is run again on it,
\* the second run completes too and leaves artifacts identical to those of
\* the first run, also for an article whose text yields no analysed token.
C9_SecondRunIdentical ==
    (entry = "pipeline" /\ prevPipelineDone /\ apc \in {"done", "raised"})
        => (apc = "done" /\ Artifacts(dsFiles) = Artifacts(dsAtStart))

\* C10: in pipeline.py and in second_person.py no CorpusManager is built, no
\* raw text is read and no file is written before validate_dataset has
\* returned normally; when it raises, the directory and the output file are
\* left as they were.
C10_ValidateBeforeAnnotate ==
    /\ (corpusBuilt \/ rawRead \/ wrote \/ dsFiles # dsAtStart
            \/ outFile # outAtStart)
        => validated
    /\ (apc = "raised" /\ araisedIn = "validate_dataset")
        => (dsFiles = dsAtStart /\ outFile = outAtStart /\ ~corpusBuilt)

\* second_person.py wrote the lemma it found, after validating the dataset
C10_Witness ==
    /\ entry = "second_person"
    /\ apc = "done"
    /\ validated
    /\ wrote
    /\ outFile # outAtStart
    /\ matches # <<>>

(***************************************************************************)
(* Properties of the pipeline and of the corpus                            *)
(***************************************************************************)
\* text.split(sep): always at least one (possibly empty) piece
RECURSIVE SplitWith(_, _)
SplitWith(sep, text) ==
    IF ~Contains(text, sep) THEN <<text>>
    ELSE LET i == CHOOSE k \in 1..Len(text) :
                    /\ text[k] = sep
                    /\ \A j \in 1..(k - 1) : text[j] # sep
         IN <<SubSeq(text, 1, i - 1)>>
            \o SplitWith(sep, SubSeq(text, i + 1, Len(text)))

\* the analyzer units of a raw text that carry a non-empty analysis, in text
\* order
Retained(raw_text) ==
    SelectSeq([i \in 1..Len(raw_text) |->
                  MystemUnit(IF raw_text[i] = "\n" THEN " " ELSE raw_text[i])],
              LAMBDA unit : unit.has_analysis /\ unit.analysis # <<>>)

\* the three renderings of a retained unit
CleanedOf(unit) == <<Lower(unit.text)>>
SingleOf(unit) == <<unit.analysis[1].lex, "<", unit.analysis[1].gr, ">">>
MultipleOf(unit) ==
    SingleOf(unit) \o <<"(">> \o PymorphyTag(unit.text) \o <<")">>

\* run has written the artifacts of article id in this run of pipeline.py
Processed(id) ==
    /\ entry = "pipeline"
    /\ apc \in {"run", "done"}
    /\ id \in DOMAIN storage
    /\ id \notin Range(pending)

ArtifactText(id, suffix) == dsFiles[Name(ToDigits(id), suffix)]

\* the artifacts of article id are the joins of the renderings of the
\* retained units of its raw text
RendersRetained(id) ==
    LET kept == Retained(ArtifactText(id, "_raw.txt")) IN
    /\ ArtifactText(id, "_cleaned.txt")
        = JoinWith(" ", [i \in 1..Len(kept) |-> CleanedOf(kept[i])])
    /\ ArtifactText(id, "_single_tagged.txt")
        = JoinWith(" ", [i \in 1..Len(kept) |-> SingleOf(kept[i])])
    /\ ArtifactText(id, "_multiple_tagged.txt")
        = JoinWith(" ", [i \in 1..Len(kept) |-> MultipleOf(kept[i])])

EntryCount(id, suffix) == Len(SplitWith(" ", ArtifactText(id, suffix)))

\* C17 as stated: the three artifacts of an article render the retained units
\* of its raw text, in text order, and contain the same number of
\* space-separated entries.
C17_SameEntryCount ==
    \A id \in 1..MaxId :
        Processed(id) =>
            /\ RendersRetained(id)
            /\ EntryCount(id, "_cleaned.txt") = EntryCount(id, "_single_tagged.txt")
            /\ EntryCount(id, "_cleaned.txt") = EntryCount(id, "_multiple_tagged.txt")

\* C17 amended: the three artifacts of an article are the single-space joins
\* of the renderings of exactly the retained units of its raw text, in text
\* order; the cleaned and the single-tagged artifact split on spaces into
\* these renderings, one entry per retained unit, while the multiple-tagged
\* artifact has at least as many entries.
C17_ArtifactsRenderRetained ==
    \A id \in 1..MaxId :
        Processed(id) =>
            LET kept == Retained(ArtifactText(id, "_raw.txt")) IN
            /\ RendersRetained(id)
            /\ kept # <<>> =>
                /\ SplitWith(" ", ArtifactText(id, "_cleaned.txt"))
                    = [i \in 1..Len(kept) |-> CleanedOf(kept[i])]
                /\ SplitWith(" ", ArtifactText(id, "_single_tagged.txt"))
                    = [i \in 1..Len(kept) |-> SingleOf(kept[i])]
                /\ EntryCount(id, "_multiple_tagged.txt") >= Len(kept)

\* the pipeline finished on a raw text with analysed words, a unit with an
\* empty analysis and units without one; two units were retained
C17_Witness ==
    /\ entry = "pipeline"
    /\ apc = "done"
    /\ Processed(1)
    /\ ArtifactText(1, "_raw.txt") = TEXT_MIX
    /\ Len(Retained(TEXT_MIX)) = 2
    /\ EntryCount(1, "_cleaned.txt") = 2

\* C18: for every directory on which validate_dataset returned normally, the
\* CorpusManager built on it is built without an error and holds a mapping
\* whose key set is exactly 1..N, N the number of *_raw.txt files, each key
\* mapped to an Article placeholder whose id is the key.
C18_CorpusKeysOneToN ==
    (validated /\ corpusBuilt) =>
        LET N == Cardinality(Glob(dsFiles, "_raw.txt")) IN
        /\ araisedIn # "CorpusManager"
        /\ DOMAIN storage = 1..N
        /\ \A key \in 1..N : storage[key].article_id = key

\* a corpus of two articles was built on a validated directory
C18_Witness ==
    /\ validated
    /\ corpusBuilt
    /\ apc \in {"run", "scan"}
    /\ DOMAIN storage = {1, 2}
    /\ Cardinality(Glob(dsFiles, "_raw.txt")) = 2

====
